---- MODULE Spec2Model ----
(***************************************************************************)
(* Model of bbdc.py: the slot filter/sort of SlotResponseData and the      *)
(* sequential login -> course selection -> slot enumeration run of main(). *)
(*                                                                         *)
(* Python str values that the code compares with < are modelled as tuples  *)
(* of character codes, so that the comparison is the lexicographic one the *)
(* interpreter performs.  Optional values (x | None) are records           *)
(* [present, val].  A dict is modelled by the sequence of its values in    *)
(* insertion order, which is all the code reads of it (.values()).         *)
(***************************************************************************)
EXTENDS Integers, Sequences, FiniteSets, TLC

VARIABLES
    \* ---- main(): position, environment, locals ----
    pc,                 \* line of main() about to execute, "done" or "failed"
    HEADERS,            \* the module-level header dict
    course_type,        \* os.environ["BBDC_COURSE"]
    login_captcha_data, \* Optional LoginCaptcha
    captcha_value,      \* Optional str
    login_response,     \* Optional CheckIdPasswordResponse
    courses,            \* Optional Courses
    course,             \* Optional Course
    slot_response,      \* Optional SlotResponse
    month_idx,          \* position of the for loop over releasedSlotMonthList
    failure,            \* name of the exception that ended the run, or ""
    \* ---- observation of main()'s I/O ----
    sent,               \* requests.post calls, in order
    received,           \* decoded responses, in order
    calls,              \* pages get_available_slots_by_sessions was invoked on
    printed,            \* print() calls, in order
    \* ---- get_available_slots_by_sessions applied to arbitrary pages ----
    ppc,                \* "input", "applied", "reapplied" ("off" during a run)
    page,               \* a SlotResponseData
    sessions,           \* the *sessions argument tuple
    available,          \* Optional list: the value returned
    again               \* Optional list: the value returned on the regrouped output

vars == <<pc, HEADERS, course_type, login_captcha_data, captcha_value,
          login_response, courses, course, slot_response, month_idx, failure,
          sent, received, calls, printed, ppc, page, sessions, available, again>>

runVars == <<pc, HEADERS, course_type, login_captcha_data, captcha_value,
             login_response, courses, course, slot_response, month_idx, failure,
             sent, received, calls, printed>>

pureVars == <<ppc, page, sessions, available, again>>

(***************************************************************************)
(* Bounds                                                                  *)
(***************************************************************************)
MaxSlots == 3       \* slots on one page, over all day groups
MaxGroups == 2      \* day groups on one page
MaxSessions == 2    \* length of the *sessions argument
MaxCourses == 2     \* length of activeCourseList
MaxMonths == 2      \* length of releasedSlotMonthList

(***************************************************************************)
(* Optional values and Python truthiness                                   *)
(***************************************************************************)
None == [present |-> FALSE, val |-> <<>>]

Some(v) == [present |-> TRUE, val |-> v]

\* bool(x) for x a list/dict or None: None and the empty container are falsy
Truthy(opt) == opt.present /\ Len(opt.val) > 0

(***************************************************************************)
(* Strings as the server sends them                                        *)
(***************************************************************************)
TwoDigits(n) == <<48 + (n \div 10), 48 + (n % 10)>>

FourDigits(n) == TwoDigits(n \div 100) \o TwoDigits(n % 100)

\* "DD-MM-YYYY"
DateStr(d, m, y) == TwoDigits(d) \o <<45>> \o TwoDigits(m) \o <<45>> \o FourDigits(y)

\* "HH:MM"
TimeStr(h, m) == TwoDigits(h) \o <<58>> \o TwoDigits(m)

\* Python's str.__lt__: lexicographic by code point, a proper prefix is smaller
RECURSIVE StrLt(_, _)
StrLt(a, b) ==
    IF a = <<>> THEN b # <<>>
    ELSE IF b = <<>> THEN FALSE
    ELSE IF Head(a) = Head(b) THEN StrLt(Tail(a), Tail(b))
    ELSE Head(a) < Head(b)

\* f"SESSION {session}"
SessionName(session) == "SESSION " \o ToString(session)

(***************************************************************************)
(* Slot and its ordering                                                   *)
(***************************************************************************)
SlotNames == {"SESSION 5", "SESSION 6"}

SlotDates == {DateStr(1, 6, 2024), DateStr(2, 5, 2024)}

SlotTimes == {TimeStr(7, 0), TimeStr(8, 0)}

\* the fields of Slot that the code reads
Slot == [slot_ref_name : SlotNames, slot_ref_date : SlotDates, start_time : SlotTimes]

\* Slot.__lt__
SlotLt(self, other) ==
    IF self.slot_ref_date = other.slot_ref_date
    THEN StrLt(self.start_time, other.start_time)
    ELSE StrLt(self.slot_ref_date, other.slot_ref_date)

\* an insertion that puts x before the elements it is equal to (not stable)
RECURSIVE InsertSorted_Unstable(_, _)
InsertSorted_Unstable(s, x) ==
    IF s = <<>> THEN <<x>>
    ELSE IF ~SlotLt(Head(s), x) THEN <<x>> \o s
    ELSE <<Head(s)>> \o InsertSorted_Unstable(Tail(s), x)

\* one step of the stable sort: x goes before the first element it is
\* smaller than, hence after every element it is equal to
RECURSIVE InsertSorted(_, _)
InsertSorted(s, x) ==
    IF s = <<>> THEN <<x>>
    ELSE IF SlotLt(x, Head(s)) THEN <<x>> \o s
    ELSE <<Head(s)>> \o InsertSorted(Tail(s), x)

\* sorted(available_slots): stable, uses only __lt__
RECURSIVE Sorted(_)
Sorted(s) ==
    IF s = <<>> THEN <<>>
    ELSE InsertSorted(Sorted(SubSeq(s, 1, Len(s) - 1)), s[Len(s)])

(***************************************************************************)
(* SlotResponseData.get_available_slots_by_sessions                        *)
(***************************************************************************)
\* the two nested for loops: every slot of every day group, in dict order
RECURSIVE AllSlots(_)
AllSlots(groups) ==
    IF groups = <<>> THEN <<>> ELSE Head(groups) \o AllSlots(Tail(groups))

\* session_names that forgets the last requested session
SessionNames_DropLast(ss) ==
    [i \in 1..(IF Len(ss) = 0 THEN 0 ELSE Len(ss) - 1) |-> SessionName(ss[i])]

\* session_names = [f"SESSION {session}" for session in sessions]
SessionNames(ss) == [i \in 1..Len(ss) |-> SessionName(ss[i])]

\* slot.slot_ref_name in session_names
NameIn(name, session_names) ==
    \E i \in 1..Len(session_names) : session_names[i] = name

GetAvailableSlotsBySessions(self, ss) ==
    LET session_names == SessionNames(ss)
        Keep(slot) == NameIn(slot.slot_ref_name, session_names)
    IN  IF Truthy(self.released_slot_list_group_by_day)
        THEN Some(Sorted(SelectSeq(AllSlots(self.released_slot_list_group_by_day.val), Keep)))
        ELSE None

(***************************************************************************)
(* Pages and arguments the function is applied to                          *)
(***************************************************************************)
SeqsUpTo(S, n) == UNION {[1..k -> S] : k \in 0..n}

\* the ways of cutting s into exactly g consecutive (possibly empty) groups
RECURSIVE Splits(_, _)
Splits(s, g) ==
    IF g = 0 THEN (IF s = <<>> THEN {<<>>} ELSE {})
    ELSE UNION {{<<SubSeq(s, 1, i)>> \o rest :
                    rest \in Splits(SubSeq(s, i + 1, Len(s)), g - 1)} : i \in 0..Len(s)}

\* dict[str, list[Slot]]: at most MaxGroups day groups, at most MaxSlots slots
GroupedSlots == UNION {Splits(s, g) : s \in SeqsUpTo(Slot, MaxSlots), g \in 0..MaxGroups}

SlotMonth == {[slot_month_en |-> "Jan'24", slot_month_ym |-> "202401"],
              [slot_month_en |-> "Feb'24", slot_month_ym |-> "202402"]}

SessionNumbers == {5, 6}

PureInit ==
    /\ ppc = "input"
    /\ \E g \in {None} \cup {Some(x) : x \in GroupedSlots} :
         \E ml \in {None, Some(<<>>)} \cup {Some(<<m>>) : m \in SlotMonth} :
            page = [released_slot_month_list |-> ml, released_slot_list_group_by_day |-> g]
    /\ sessions \in SeqsUpTo(SessionNumbers, MaxSessions)
    /\ available = None
    /\ again = None
    /\ pc = "off"
    /\ HEADERS = [jsessionid |-> ""]
    /\ course_type = ""
    /\ login_captcha_data = None
    /\ captcha_value = None
    /\ login_response = None
    /\ courses = None
    /\ course = None
    /\ slot_response = None
    /\ month_idx = 0
    /\ failure = ""
    /\ sent = <<>>
    /\ received = <<>>
    /\ calls = <<>>
    /\ printed = <<>>

\* page.get_available_slots_by_sessions(*sessions)
Apply ==
    /\ ppc = "input"
    /\ available' = GetAvailableSlotsBySessions(page, sessions)
    /\ ppc' = "applied"
    /\ UNCHANGED <<page, sessions, again>>
    /\ UNCHANGED runVars

\* the returned list goes back into a page as its day groups and the
\* function is applied to that page with the same sessions
Reapply ==
    /\ ppc = "applied"
    /\ available.present
    /\ \E g \in 1..MaxGroups : \E groups \in Splits(available.val, g) :
          again' = GetAvailableSlotsBySessions(
                      [page EXCEPT !.released_slot_list_group_by_day = Some(groups)],
                      sessions)
    /\ ppc' = "reapplied"
    /\ UNCHANGED <<page, sessions, available>>
    /\ UNCHANGED runVars

PureNext == Apply \/ Reapply

PureSpec == PureInit /\ [][PureNext]_vars

(***************************************************************************)
(* The API client                                                          *)
(***************************************************************************)
username == "S1234567A"

password == "secret"

\* Python's dict union a | b: a new dict, b's entries win
Merge(a, b) == [k \in DOMAIN a \cup DOMAIN b |-> IF k \in DOMAIN b THEN b[k] ELSE a[k]]

\* the entries of HEADERS that differ between requests
InitialHeaders == [jsessionid |-> ""]

\* one requests.post(url, headers=..., data=json.dumps(payload))
Post(url, headers, payload) == [url |-> url, headers |-> headers, payload |-> payload]

\* requests.post, response.json() or model_validate raising
Errors == {"ConnectionError", "ValidationError"}

CheckIdPasswordPayload(user_id, user_password) ==
    [userId |-> user_id, userPass |-> user_password]

\* login payload with the two captcha fields exchanged
LoginPayload_Swapped(captcha_token, verify_code_id, verify_code_value, user_id, user_password) ==
    [captchaToken |-> verify_code_id, verifyCodeId |-> captcha_token,
     verifyCodeValue |-> verify_code_value, userId |-> user_id, userPass |-> user_password]

LoginPayload(captcha_token, verify_code_id, verify_code_value, user_id, user_password) ==
    [captchaToken |-> captcha_token, verifyCodeId |-> verify_code_id,
     verifyCodeValue |-> verify_code_value, userId |-> user_id, userPass |-> user_password]

ListCoursesHeaders(hdrs, authorization_header_value) ==
    Merge(hdrs, [authorization |-> authorization_header_value])

SlotHeaders(hdrs, login_token, course_token) ==
    Merge(hdrs, [authorization |-> login_token, jsessionid |-> course_token])

C3SlotPayload(ct, released_slot_month) ==
    [courseType |-> ct, insInstructorId |-> "", releasedSlotMonth |-> released_slot_month,
     stageSubDesc |-> "Practical Lesson", subVehicleType |-> None, subStageSubNo |-> None]

(***************************************************************************)
(* What the server may answer                                              *)
(***************************************************************************)
LoginTokens == {"Bearer login-1", "Bearer login-2"}

\* the answer to the credential probe; main() discards it
ProbeResponses == [success : BOOLEAN, data : [token_content : {"Bearer probe"}]]

LoginResponses == [success : BOOLEAN, data : [token_content : LoginTokens]]

\* image is kept as the list image.split(',') evaluates to
CaptchaData ==
    {[image |-> img, captcha_token |-> c[1], verify_code_id |-> c[2]] :
        img \in {<<"data:image/png;base64", "iVBORw0KGgo=">>, <<"iVBORw0KGgo=">>},
        c \in {<<"captcha-1", "verify-1">>, <<"captcha-2", "verify-2">>}}

CaptchaResponses == [success : BOOLEAN, data : CaptchaData]

CaptchaValues == {"x7Kp"}

Course == [course_type : {"3A", "3C"}, auth_token : {"Bearer course-1", "Bearer course-2"}]

CoursesResponses ==
    [success : BOOLEAN, data : [active_course_list : SeqsUpTo(Course, MaxCourses)]]

ConfiguredCourseTypes == {"3C", "9Z"}

SlotA == [slot_ref_name |-> "SESSION 5", slot_ref_date |-> DateStr(1, 6, 2024),
          start_time |-> TimeStr(8, 0)]

SlotB == [slot_ref_name |-> "SESSION 6", slot_ref_date |-> DateStr(1, 6, 2024),
          start_time |-> TimeStr(7, 0)]

RunGrouped == {None, Some(<<>>), Some(<<<<SlotA, SlotB>>>>)}

MonthLists == {None} \cup {Some(ml) : ml \in SeqsUpTo(SlotMonth, MaxMonths)}

\* answers to the query without releasedSlotMonth
InitialPages ==
    [released_slot_month_list : MonthLists, released_slot_list_group_by_day : RunGrouped]

\* answers to a query for one month
MonthPages ==
    [released_slot_month_list : {None}, released_slot_list_group_by_day : RunGrouped]

SlotResponses(pages) == [success : BOOLEAN, data : pages]

(***************************************************************************)
(* main()                                                                  *)
(***************************************************************************)
\* filter(...) that keeps every course
MatchingCourses_KeepAll(active_course_list, ct) == active_course_list

\* filter(lambda lesson: lesson.course_type == course_type, active_course_list)
MatchingCourses(active_course_list, ct) ==
    LET Wanted(lesson) == lesson.course_type = ct
    IN  SelectSeq(active_course_list, Wanted)

\* [0] taken from the wrong end
FirstOf_Last(l) == l[Len(l)]

\* list(...)[0]
FirstOf(l) == l[1]

\* the label of the month in place of its key
MonthKey_Label(released_slot_month) == released_slot_month.slot_month_en

\* released_slot_month.slot_month_ym
MonthKey(released_slot_month) == released_slot_month.slot_month_ym

Init ==
    /\ pc = "L221"
    /\ HEADERS = InitialHeaders
    /\ course_type \in ConfiguredCourseTypes
    /\ login_captcha_data = None
    /\ captcha_value = None
    /\ login_response = None
    /\ courses = None
    /\ course = None
    /\ slot_response = None
    /\ month_idx = 0
    /\ failure = ""
    /\ sent = <<>>
    /\ received = <<>>
    /\ calls = <<>>
    /\ printed = <<>>
    /\ ppc = "off"
    /\ page = [released_slot_month_list |-> None, released_slot_list_group_by_day |-> None]
    /\ sessions = <<>>
    /\ available = None
    /\ again = None

\* an exception propagates out of main()
Raise(e) ==
    /\ pc' = "failed"
    /\ failure' = e

\* line 221
CheckIdAndPassword ==
    /\ pc = "L221"
    /\ sent' = Append(sent, Post("/auth/checkIdAndPass", HEADERS,
                                 CheckIdPasswordPayload(username, password)))
    /\ \/ \E e \in Errors : Raise(e) /\ UNCHANGED received
       \/ \E r \in ProbeResponses :
            /\ received' = Append(received, r)
            /\ pc' = "L224"
            /\ UNCHANGED failure
    /\ UNCHANGED <<HEADERS, course_type, login_captcha_data, captcha_value, login_response,
                   courses, course, slot_response, month_idx, calls, printed>>
    /\ UNCHANGED pureVars

\* line 224
GetLoginCaptcha ==
    /\ pc = "L224"
    /\ sent' = Append(sent, Post("/auth/getLoginCaptchaImage", HEADERS, <<>>))
    /\ \/ \E e \in Errors : Raise(e) /\ UNCHANGED <<received, login_captcha_data>>
       \/ \E r \in CaptchaResponses :
            /\ received' = Append(received, r)
            /\ login_captcha_data' = Some(r)
            /\ pc' = "L227"
            /\ UNCHANGED failure
    /\ UNCHANGED <<HEADERS, course_type, captcha_value, login_response,
                   courses, course, slot_response, month_idx, calls, printed>>
    /\ UNCHANGED pureVars

\* lines 227-229
SolveCaptcha ==
    /\ pc = "L227"
    /\ IF Len(login_captcha_data.val.data.image) < 2
       THEN Raise("IndexError") /\ UNCHANGED captcha_value
       ELSE \/ Raise("CalledProcessError") /\ UNCHANGED captcha_value
            \/ \E v \in CaptchaValues :
                 /\ captcha_value' = Some(v)
                 /\ pc' = "L232"
                 /\ UNCHANGED failure
    /\ UNCHANGED <<HEADERS, course_type, login_captcha_data, login_response, courses, course,
                   slot_response, month_idx, sent, received, calls, printed>>
    /\ UNCHANGED pureVars

\* lines 232-238
Login ==
    /\ pc = "L232"
    /\ sent' = Append(sent, Post("/auth/login", HEADERS,
                                 LoginPayload(login_captcha_data.val.data.captcha_token,
                                              login_captcha_data.val.data.verify_code_id,
                                              captcha_value.val, username, password)))
    /\ \/ \E e \in Errors : Raise(e) /\ UNCHANGED <<received, login_response>>
       \/ \E r \in LoginResponses :
            /\ received' = Append(received, r)
            /\ login_response' = Some(r)
            /\ pc' = "L241"
            /\ UNCHANGED failure
    /\ UNCHANGED <<HEADERS, course_type, login_captcha_data, captcha_value,
                   courses, course, slot_response, month_idx, calls, printed>>
    /\ UNCHANGED pureVars

\* line 241
ListCourses ==
    /\ pc = "L241"
    /\ sent' = Append(sent, Post("/account/listAccountCourseType",
                                 ListCoursesHeaders(HEADERS, login_response.val.data.token_content),
                                 <<>>))
    /\ \/ \E e \in Errors : Raise(e) /\ UNCHANGED <<received, courses>>
       \/ \E r \in CoursesResponses :
            /\ received' = Append(received, r)
            /\ courses' = Some(r)
            /\ pc' = "L244"
            /\ UNCHANGED failure
    /\ UNCHANGED <<HEADERS, course_type, login_captcha_data, captcha_value, login_response,
                   course, slot_response, month_idx, calls, printed>>
    /\ UNCHANGED pureVars

\* line 244
SelectCourse ==
    /\ pc = "L244"
    /\ LET matching == MatchingCourses(courses.val.data.active_course_list, course_type)
       IN  IF matching = <<>>
           THEN Raise("IndexError") /\ UNCHANGED course
           ELSE /\ course' = Some(FirstOf(matching))
                /\ pc' = "L271"
                /\ UNCHANGED failure
    /\ UNCHANGED <<HEADERS, course_type, login_captcha_data, captcha_value, login_response,
                   courses, slot_response, month_idx, sent, received, calls, printed>>
    /\ UNCHANGED pureVars

\* lines 271-275
ListC3PracticalSlots ==
    /\ pc = "L271"
    /\ sent' = Append(sent, Post("/booking/c3practical/listC3PracticalSlotReleased",
                                 SlotHeaders(HEADERS, login_response.val.data.token_content,
                                             course.val.auth_token),
                                 C3SlotPayload(course_type, None)))
    /\ \/ \E e \in Errors : Raise(e) /\ UNCHANGED <<received, slot_response>>
       \/ \E r \in SlotResponses(InitialPages) :
            /\ received' = Append(received, r)
            /\ slot_response' = Some(r)
            /\ pc' = "L277"
            /\ UNCHANGED failure
    /\ UNCHANGED <<HEADERS, course_type, login_captcha_data, captcha_value, login_response,
                   courses, course, month_idx, calls, printed>>
    /\ UNCHANGED pureVars

\* lines 277-280
Branch ==
    /\ pc = "L277"
    /\ LET data == slot_response.val.data
       IN  IF Truthy(data.released_slot_list_group_by_day)
           THEN /\ calls' = Append(calls, data)
                /\ printed' = Append(printed,
                      [kind |-> "slots", value |-> GetAvailableSlotsBySessions(data, <<5, 6>>)])
                /\ pc' = "done"
                /\ UNCHANGED month_idx
           ELSE IF Truthy(data.released_slot_month_list)
           THEN /\ month_idx' = 1
                /\ pc' = "L281"
                /\ UNCHANGED <<calls, printed>>
           ELSE /\ pc' = "done"
                /\ UNCHANGED <<month_idx, calls, printed>>
    /\ UNCHANGED <<HEADERS, course_type, login_captcha_data, captcha_value, login_response,
                   courses, course, slot_response, failure, sent, received>>
    /\ UNCHANGED pureVars

\* lines 281-292: one iteration of the for loop
MonthIteration ==
    /\ pc = "L281"
    /\ LET months == slot_response.val.data.released_slot_month_list.val
           released_slot_month == months[month_idx]
           notice == [kind |-> "month", value |-> released_slot_month]
       IN  /\ sent' = Append(sent, Post("/booking/c3practical/listC3PracticalSlotReleased",
                                 SlotHeaders(HEADERS, login_response.val.data.token_content,
                                             course.val.auth_token),
                                 C3SlotPayload(course_type, Some(MonthKey(released_slot_month)))))
           /\ \/ \E e \in Errors :
                   /\ Raise(e)
                   /\ printed' = Append(printed, notice)
                   /\ UNCHANGED <<received, calls, month_idx>>
              \/ \E slots_for_month \in SlotResponses(MonthPages) :
                   /\ received' = Append(received, slots_for_month)
                   /\ calls' = Append(calls, slots_for_month.data)
                   /\ printed' = printed \o
                        <<notice,
                          [kind |-> "slots",
                           value |-> GetAvailableSlotsBySessions(slots_for_month.data, <<5, 6>>)]>>
                   /\ month_idx' = month_idx + 1
                   /\ pc' = IF month_idx = Len(months) THEN "done" ELSE "L281"
                   /\ UNCHANGED failure
    /\ UNCHANGED <<HEADERS, course_type, login_captcha_data, captcha_value, login_response,
                   courses, course, slot_response>>
    /\ UNCHANGED pureVars

Next ==
    \/ CheckIdAndPassword
    \/ GetLoginCaptcha
    \/ SolveCaptcha
    \/ Login
    \/ ListCourses
    \/ SelectCourse
    \/ ListC3PracticalSlots
    \/ Branch
    \/ MonthIteration

Spec == Init /\ [][Next]_vars

(***************************************************************************)
(* Properties of get_available_slots_by_sessions (checked under PureSpec)  *)
(***************************************************************************)

\* C1: for a page whose grouped-slot map is present, the function returns
\* exactly the slots of the page, over all day groups and counted with their
\* multiplicity, whose display name is "SESSION n" for a requested n: every
\* returned slot matches and no matching slot is omitted.
C1_ReturnsExactlyMatching ==
    (ppc \in {"applied", "reapplied"} /\ page.released_slot_list_group_by_day.present) =>
        LET groups == page.released_slot_list_group_by_day.val
            positions == UNION {{<<g, i>> : i \in 1..Len(groups[g])} : g \in 1..Len(groups)}
            wanted(s) == \E k \in 1..Len(sessions) : s.slot_ref_name = SessionName(sessions[k])
            inPage(s) == Cardinality({p \in positions : groups[p[1]][p[2]] = s})
            returned(s) == Cardinality({i \in 1..Len(available.val) : available.val[i] = s})
        IN  \A s \in Slot : returned(s) = (IF wanted(s) THEN inPage(s) ELSE 0)

\* a page of two day groups where some slots match and one does not
C1_Witness ==
    /\ ppc = "applied"
    /\ available.present
    /\ Len(page.released_slot_list_group_by_day.val) = 2
    /\ Len(available.val) >= 2
    /\ Len(AllSlots(page.released_slot_list_group_by_day.val)) > Len(available.val)

\* C2: the returned list is in chronological order: for results a at index
\* i and b at index j > i, the calendar date of a is earlier than that of b,
\* or the dates are equal and a.start_time <= b.start_time; dates are the
\* day-month-year strings of the server.
C2_ChronologicalOrder ==
    (ppc = "applied" /\ available.present) =>
        LET r == available.val
            two(str, k) == (str[k] - 48) * 10 + (str[k + 1] - 48)
            calendar(str) == (two(str, 7) * 100 + two(str, 9)) * 10000
                                + two(str, 4) * 100 + two(str, 1)
        IN  \A i, j \in 1..Len(r) :
                i < j =>
                    \/ calendar(r[i].slot_ref_date) < calendar(r[j].slot_ref_date)
                    \/ /\ calendar(r[i].slot_ref_date) = calendar(r[j].slot_ref_date)
                       /\ ~StrLt(r[j].start_time, r[i].start_time)

\* C6: for a page whose grouped-slot map is present, when no slot matches
\* the function returns an empty sequence, not an absent value.
C6_NoMatchGivesEmptyList ==
    LET groups == page.released_slot_list_group_by_day.val
        wanted(s) == \E k \in 1..Len(sessions) : s.slot_ref_name = SessionName(sessions[k])
    IN  ( /\ ppc = "applied"
          /\ page.released_slot_list_group_by_day.present
          /\ \A g \in 1..Len(groups) : \A i \in 1..Len(groups[g]) : ~wanted(groups[g][i]) )
        => available = Some(<<>>)

C3_AuthFailureEndsRun ==
    \A i \in 1..Len(received) :
        (i <= 3 /\ ~received[i].success) =>
            /\ Len(sent) <= i
            /\ \A k \in 1..Len(printed) : printed[k].kind # "slots"

\* C4: get_available_slots_by_sessions is never invoked on a page that has
\* no grouped-slot data, be it the initial page or a per-month page.
C4_NeverInvokedWithoutGroupedData ==
    \A i \in 1..Len(calls) : calls[i].released_slot_list_group_by_day.present

\* C5: if no course of the list_courses result (the empty list included) has
\* the configured course type, the run aborts before any slot query: the
\* course list request stays the last request of the run.
C5_CourseNotFoundAborts ==
    ( /\ courses.present
      /\ \A i \in 1..Len(courses.val.data.active_course_list) :
            courses.val.data.active_course_list[i].course_type # course_type )
    => /\ pc \in {"L244", "failed"}
       /\ pc = "failed" => failure = "IndexError"
       /\ ~course.present
       /\ Len(sent) = 4
       /\ \A k \in 1..Len(sent) :
             sent[k].url # "/booking/c3practical/listC3PracticalSlotReleased"
       /\ printed = <<>>

\* a non-empty course list without the configured type ended the run
C5_Witness ==
    /\ pc = "failed"
    /\ failure = "IndexError"
    /\ courses.present
    /\ Len(courses.val.data.active_course_list) > 0
    /\ course_type = "9Z"

\* C7: requests are issued in the order credential probe, captcha fetch,
\* login, course list, slot queries; each of the first four at most once;
\* login only after the captcha was fetched and solved and with its token
\* and verification id; the course list only after login; a slot query only
\* after a course was selected.
C7_RequestOrder ==
    /\ \A i \in 1..Len(sent) :
          sent[i].url = (CASE i = 1 -> "/auth/checkIdAndPass"
                           [] i = 2 -> "/auth/getLoginCaptchaImage"
                           [] i = 3 -> "/auth/login"
                           [] i = 4 -> "/account/listAccountCourseType"
                           [] OTHER -> "/booking/c3practical/listC3PracticalSlotReleased")
    /\ Len(sent) >= 3 =>
          /\ Len(received) >= 2
          /\ login_captcha_data = Some(received[2])
          /\ captcha_value.present
          /\ sent[3].payload.captchaToken = received[2].data.captcha_token
          /\ sent[3].payload.verifyCodeId = received[2].data.verify_code_id
          /\ sent[3].payload.verifyCodeValue = captcha_value.val
    /\ Len(sent) >= 4 => (Len(received) >= 3 /\ login_response = Some(received[3]))
    /\ Len(sent) >= 5 => (Len(received) >= 4 /\ course.present)

\* a run that went through all five kinds of request and a re-query
C7_Witness ==
    /\ pc = "done"
    /\ Len(sent) >= 6
    /\ sent[3].payload.captchaToken = "captcha-2"

\* C8: when the initial page has no grouped-slot data and a month list
\* m1..mk, the re-queries carry the keys of m1, m2, ... in list order, a run
\* that completes has issued exactly k of them and the run ends with the
\* k-th; when the initial page has grouped-slot data or no month list, no
\* re-query is issued.  So a run issues at most 1 + k slot queries.
C8_MonthRequeries ==
    LET isSlotQuery(r) == r.url = "/booking/c3practical/listC3PracticalSlotReleased"
        queries == SelectSeq(sent, isSlotQuery)
        requeries == SubSeq(queries, 2, Len(queries))
    IN  IF ~slot_response.present
        THEN Len(queries) <= 1
        ELSE LET data == slot_response.val.data
                 months == data.released_slot_month_list.val
             IN  /\ queries[1].payload.releasedSlotMonth = None
                 /\ IF ~Truthy(data.released_slot_list_group_by_day)
                        /\ Truthy(data.released_slot_month_list)
                    THEN /\ Len(requeries) <= Len(months)
                         /\ \A i \in 1..Len(requeries) :
                               requeries[i].payload.releasedSlotMonth =
                                   Some(months[i].slot_month_ym)
                         /\ pc = "done" => Len(requeries) = Len(months)
                         /\ Len(requeries) = Len(months) => pc \in {"done", "failed"}
                         /\ pc \in {"L277", "L281", "done", "failed"}
                    ELSE /\ Len(requeries) = 0
                         /\ pc \in {"L277", "done"}

\* a completed run that re-queried two different months
C8_Witness ==
    /\ pc = "done"
    /\ Len(sent) = 7
    /\ sent[6].payload.releasedSlotMonth = Some("202402")
    /\ sent[7].payload.releasedSlotMonth = Some("202401")

\* C10: every slot query carries as authorization the token of this run's
\* login response, as jsessionid the auth token of the first course of the
\* list_courses result whose type is the configured one, and as courseType
\* the configured type; the requests up to and including login carry no
\* authorization header; HEADERS is never changed.
C10_SlotQueryCredentials ==
    /\ HEADERS = InitialHeaders
    /\ \A i \in 1..Len(sent) :
          IF i <= 3
          THEN "authorization" \notin DOMAIN sent[i].headers
          ELSE i >= 5 =>
                LET list == received[4].data.active_course_list
                    first == CHOOSE j \in 1..Len(list) :
                                /\ list[j].course_type = course_type
                                /\ \A k \in 1..(j - 1) : list[k].course_type # course_type
                IN  /\ sent[i].headers.authorization = received[3].data.token_content
                    /\ sent[i].headers.jsessionid = list[first].auth_token
                    /\ sent[i].payload.courseType = course_type

\* a re-query was issued for an account with two courses of the configured
\* type that have different tokens
C10_Witness ==
    /\ Len(sent) >= 6
    /\ Len(received) >= 4
    /\ LET list == received[4].data.active_course_list
       IN  /\ Len(list) >= 2
           /\ list[1].course_type = course_type
           /\ list[2].course_type = course_type
           /\ list[1].auth_token # list[2].auth_token

====
